---- MODULE Spec2Model ----
(***************************************************************************)
(* Model of drprojver.py: the two text patchers (patch_xml_projectversion, *)
(* patch_comment_version_info) and the archive rewriter                    *)
(* (process_dr_project).                                                   *)
(*                                                                         *)
(* Bytes and text are sequences of tokens.  A literal of a regular         *)
(* expression ("<ProjectVersion>", "DbAppVer=\"", ...) is one token, every *)
(* other token is one character.  The bytes 0xC3 0xA9 are the UTF-8        *)
(* encoding of the one character U+00E9, 0xFF is no valid UTF-8.           *)
(* Offsets are Python's: counted from 0, data[a:b] is half open.           *)
(***************************************************************************)
EXTENDS Integers, Sequences, FiniteSets, TLC

VARIABLES
    in_project,   \* the input container: its infolist, each item with its content
    set_ver,      \* argument set_ver (str)
    assert_ver,   \* argument assert_ver (str), "" = <<>>
    set_appver,   \* argument set_appver (str), "" = <<>>
    out_project,  \* the items written to the output container, in order
    stdout,       \* the lines printed
    pc,           \* position in process_dr_project, or in a direct patcher call
    i,            \* index (from 1) of the current item of infolist
    data_bytes,   \* the local data_bytes
    in_open,      \* the input ZipFile is open
    out_open,     \* the output ZipFile is open
    item_open,    \* the entry stream in_item is open
    call,         \* the last patcher call: function, argument, result
    run,          \* 1 in the first invocation, 2 in a second one on its output
    first,        \* the first invocation's container and arguments (history)
    exc           \* the exception that left process_dr_project, "" = none

vars == << in_project, set_ver, assert_ver, set_appver, out_project, stdout, pc, i,
           data_bytes, in_open, out_open, item_open, call, run, first, exc >>

-----------------------------------------------------------------------------
(* Bounds of the model *)

\* containers hold at most MaxEntries entries
MaxEntries == 2
\* blobs handed directly to a patcher are built from at most MaxSegs segments
MaxSegs == 2

-----------------------------------------------------------------------------
(* Python helpers *)

\* data[a:b]
Slice(data, a, b) == SubSeq(data, a + 1, b)

\* data[a:]
SliceFrom(data, a) == SubSeq(data, a + 1, Len(data))

\* str.endswith
endswith(s, suffix) ==
    /\ Len(suffix) <= Len(s)
    /\ SubSeq(s, Len(s) - Len(suffix) + 1, Len(s)) = suffix

\* bytes.decode() raises UnicodeDecodeError unless the bytes are valid UTF-8
RECURSIVE utf8_valid(_)
utf8_valid(b) ==
    IF b = << >> THEN TRUE
    ELSE IF b[1] = "0xC3"
         THEN Len(b) >= 2 /\ b[2] = "0xA9" /\ utf8_valid(SliceFrom(b, 2))
         ELSE b[1] \notin {"0xA9", "0xE9", "0xFF"} /\ utf8_valid(Tail(b))

\* bytes.decode() of valid UTF-8
RECURSIVE decode(_)
decode(b) ==
    IF b = << >> THEN << >>
    ELSE IF b[1] = "0xC3"
         THEN << "U+00E9" >> \o decode(SliceFrom(b, 2))
         ELSE << b[1] >> \o decode(Tail(b))

\* an encoder that writes U+00E9 as the single Latin-1 byte 0xE9
RECURSIVE encode_latin1(_)
encode_latin1(s) ==
    IF s = << >> THEN << >>
    ELSE IF s[1] = "U+00E9"
         THEN << "0xE9" >> \o encode_latin1(Tail(s))
         ELSE << s[1] >> \o encode_latin1(Tail(s))

\* str.encode()
RECURSIVE encode(_)
encode(s) ==
    IF s = << >> THEN << >>
    ELSE IF s[1] = "U+00E9"
         THEN << "0xC3", "0xA9" >> \o encode(Tail(s))
         ELSE << s[1] >> \o encode(Tail(s))

\* the character classes \s, \d and [\d.]
Space == {" ", "\n"}
Digit == {"0", "1", "2", "3", "4", "5", "6", "7", "8", "9"}
DigitDot == Digit \cup {"."}

\* a greedy run of a character class from offset p: the offset after it
RECURSIVE run_end(_, _, _)
run_end(cls, data, p) ==
    IF p < Len(data) /\ data[p + 1] \in cls THEN run_end(cls, data, p + 1) ELSE p

\* the token at offset p is lit
lit_at(data, p, lit) == p < Len(data) /\ data[p + 1] = lit

\* re.search found nothing
None == [found |-> FALSE]

Min(S) == CHOOSE x \in S : \A y \in S : x <= y
Max(S) == CHOOSE x \in S : \A y \in S : x >= y

-----------------------------------------------------------------------------
(* patch_xml_projectversion *)

\* <ProjectVersion>\s*(\d+)\s*</ProjectVersion> matched at offset s
re_projectversion_at(data, s) ==
    LET s1 == run_end(Space, data, s + 1)
        e1 == run_end(Digit, data, s1)
        c  == run_end(Space, data, e1)
    IN  IF /\ lit_at(data, s, "<ProjectVersion>")
           /\ e1 > s1
           /\ lit_at(data, c, "</ProjectVersion>")
        THEN [found |-> TRUE, start0 |-> s, end0 |-> c + 1, start1 |-> s1, end1 |-> e1]
        ELSE None

\* a search that returns the last match instead of the first
re_projectversion_search_last(data) ==
    LET starts == {s \in 0 .. (Len(data) - 1) : re_projectversion_at(data, s).found}
    IN  IF starts = {} THEN None ELSE re_projectversion_at(data, Max(starts))

\* cls.re_projectversion.search(data): the leftmost match
re_projectversion_search(data) ==
    LET starts == {s \in 0 .. (Len(data) - 1) : re_projectversion_at(data, s).found}
    IN  IF starts = {} THEN None ELSE re_projectversion_at(data, Min(starts))

\* what a patcher call does: it returns bytes, or raises
Return(b) == [raised |-> "", ver |-> << >>, ret |-> b]
Raise(e, ver) == [raised |-> e, ver |-> ver, ret |-> << >>]

\* a patcher that replaces the whole text between the tags, whitespace included
patch_xml_projectversion_whole(data_bytes_, set_ver_, assert_ver_) ==
    IF ~utf8_valid(data_bytes_) THEN Raise("UnicodeDecodeError", << >>)
    ELSE LET data == decode(data_bytes_)
             m == re_projectversion_search(data)
         IN  IF m.found
             THEN IF assert_ver_ # << >> /\ Slice(data, m.start1, m.end1) # assert_ver_
                  THEN Raise("AssertionError", Slice(data, m.start1, m.end1))
                  ELSE Return(encode(Slice(data, 0, m.start0 + 1) \o set_ver_
                                     \o SliceFrom(data, m.end0 - 1)))
             ELSE Return(data_bytes_)

\* a patcher that patches in spite of a failed assertion
patch_xml_projectversion_noassert(data_bytes_, set_ver_, assert_ver_) ==
    IF ~utf8_valid(data_bytes_) THEN Raise("UnicodeDecodeError", << >>)
    ELSE LET data == decode(data_bytes_)
             m == re_projectversion_search(data)
         IN  IF m.found
             THEN Return(encode(Slice(data, 0, m.start1) \o set_ver_
                                \o SliceFrom(data, m.end1)))
             ELSE Return(data_bytes_)

patch_xml_projectversion(data_bytes_, set_ver_, assert_ver_) ==
    IF ~utf8_valid(data_bytes_) THEN Raise("UnicodeDecodeError", << >>)
    ELSE LET data == decode(data_bytes_)
             m == re_projectversion_search(data)
         IN  IF m.found
             THEN IF assert_ver_ # << >> /\ Slice(data, m.start1, m.end1) # assert_ver_
                  THEN Raise("AssertionError", Slice(data, m.start1, m.end1))
                  ELSE Return(encode(Slice(data, 0, m.start1) \o set_ver_
                                     \o SliceFrom(data, m.end1)))
             ELSE Return(data_bytes_)

-----------------------------------------------------------------------------
(* patch_comment_version_info *)

\* <!--\s*DbAppVer="(?P<appver>[\d.]+)"\s+DbPrjVer="(?P<projver>[\d.]+)"\s*-->
\* matched at offset s
re_at(data, s) ==
    LET a   == run_end(Space, data, s + 1)
        as  == a + 1
        ae  == run_end(DigitDot, data, as)
        w   == run_end(Space, data, ae + 1)
        ps  == w + 1
        pe  == run_end(DigitDot, data, ps)
        c   == run_end(Space, data, pe + 1)
    IN  IF /\ lit_at(data, s, "<!--")
           /\ lit_at(data, a, "DbAppVer=\"")
           /\ ae > as
           /\ lit_at(data, ae, "\"")
           /\ w > ae + 1
           /\ lit_at(data, w, "DbPrjVer=\"")
           /\ pe > ps
           /\ lit_at(data, pe, "\"")
           /\ lit_at(data, c, "-->")
        THEN [found |-> TRUE, start0 |-> s, end0 |-> c + 1,
              start_appver |-> as, end_appver |-> ae,
              start_projver |-> ps, end_projver |-> pe]
        ELSE None

\* a search that returns the last match instead of the first
re_search_last(data) ==
    LET starts == {s \in 0 .. (Len(data) - 1) : re_at(data, s).found}
    IN  IF starts = {} THEN None ELSE re_at(data, Max(starts))

\* cls.re.search(data): the leftmost match
re_search(data) ==
    LET starts == {s \in 0 .. (Len(data) - 1) : re_at(data, s).found}
    IN  IF starts = {} THEN None ELSE re_at(data, Min(starts))

\* a patcher that replaces appver first and then projver at its stale offsets
patch_comment_version_info_drift(data_bytes_, set_ver_, assert_ver_, set_appver_) ==
    IF ~utf8_valid(data_bytes_) THEN Raise("UnicodeDecodeError", << >>)
    ELSE LET data == decode(data_bytes_)
             m == re_search(data)
         IN  IF m.found
             THEN IF /\ assert_ver_ # << >>
                     /\ Slice(data, m.start_projver, m.end_projver) # assert_ver_
                  THEN Raise("AssertionError", Slice(data, m.start_projver, m.end_projver))
                  ELSE LET data1 == IF set_appver_ # << >>
                                    THEN Slice(data, 0, m.start_appver) \o set_appver_
                                         \o SliceFrom(data, m.end_appver)
                                    ELSE data
                           data2 == Slice(data1, 0, m.start_projver) \o set_ver_
                                    \o SliceFrom(data1, m.end_projver)
                       IN  Return(encode(data2))
             ELSE Return(data_bytes_)

\* a patcher that replaces appver whether or not set_appver is empty
patch_comment_version_info_always(data_bytes_, set_ver_, assert_ver_, set_appver_) ==
    IF ~utf8_valid(data_bytes_) THEN Raise("UnicodeDecodeError", << >>)
    ELSE LET data == decode(data_bytes_)
             m == re_search(data)
         IN  IF m.found
             THEN IF /\ assert_ver_ # << >>
                     /\ Slice(data, m.start_projver, m.end_projver) # assert_ver_
                  THEN Raise("AssertionError", Slice(data, m.start_projver, m.end_projver))
                  ELSE LET data1 == Slice(data, 0, m.start_projver) \o set_ver_
                                    \o SliceFrom(data, m.end_projver)
                           data2 == Slice(data1, 0, m.start_appver) \o set_appver_
                                    \o SliceFrom(data1, m.end_appver)
                       IN  Return(encode(data2))
             ELSE Return(data_bytes_)

patch_comment_version_info(data_bytes_, set_ver_, assert_ver_, set_appver_) ==
    IF ~utf8_valid(data_bytes_) THEN Raise("UnicodeDecodeError", << >>)
    ELSE LET data == decode(data_bytes_)
             m == re_search(data)
         IN  IF m.found
             THEN IF /\ assert_ver_ # << >>
                     /\ Slice(data, m.start_projver, m.end_projver) # assert_ver_
                  THEN Raise("AssertionError", Slice(data, m.start_projver, m.end_projver))
                  ELSE LET data1 == Slice(data, 0, m.start_projver) \o set_ver_
                                    \o SliceFrom(data, m.end_projver)
                           data2 == IF set_appver_ # << >>
                                    THEN Slice(data1, 0, m.start_appver) \o set_appver_
                                         \o SliceFrom(data1, m.end_appver)
                                    ELSE data1
                       IN  Return(encode(data2))
             ELSE Return(data_bytes_)

-----------------------------------------------------------------------------
(* Inputs *)

\* the text fragments blobs are built from
P5    == << "<ProjectVersion>", "5", "</ProjectVersion>" >>
P6w   == << "<ProjectVersion>", " ", "6", "\n", "</ProjectVersion>" >>
Pbad  == << "<ProjectVersion>", "</ProjectVersion>" >>
A5    == << "<!--", " ", "DbAppVer=\"", "1", "8", ".", "0", "\"", " ",
            "DbPrjVer=\"", "5", "\"", " ", "-->" >>
A6    == << "<!--", "DbAppVer=\"", "2", "\"", "\n", "DbPrjVer=\"", "6", "\"", "-->" >>
Abad  == << "<!--", "DbAppVer=\"", "2", "\"", "DbPrjVer=\"", "6", "\"", "-->" >>
Text  == << "x" >>
Eacute == << "0xC3", "0xA9" >>
Binary == << "0xFF" >>

Segments == {P5, P6w, Pbad, A5, A6, Abad, Text, Eacute, Binary}

RECURSIVE Concat(_)
Concat(ss) == IF ss = << >> THEN << >> ELSE Head(ss) \o Concat(Tail(ss))

\* the blobs handed directly to a patcher
Blobs == {Concat(ss) : ss \in UNION {[1 .. k -> Segments] : k \in 0 .. MaxSegs}}

\* the values of set_ver, assert_ver ("" = no assertion) and set_appver ("" = none)
SetVers == { << "6" >>, << "1", "0" >>, << "6", ".", "5" >> }
AssertVers == { << >>, << "5" >>, << "6" >> }
AppVers == { << >>, << "1", "8", ".", "5" >> }

\* entry names: both suffixes, ".xml" only, neither (the suffix match is case-sensitive)
ProjectXml  == << "P", "r", "o", "j", "e", "c", "t", ".", "x", "m", "l" >>
TimelineXml == << "T", "i", "m", "e", "l", "i", "n", "e", "1", ".", "x", "m", "l" >>
ProjectXML  == << "P", "r", "o", "j", "e", "c", "t", ".", "X", "M", "L" >>
Names == {ProjectXml, TimelineXml, ProjectXML}

\* entry contents
EntryBlobs == { Eacute \o P6w \o Text, P5 \o A6, A5, Binary }

Entries == [filename : Names, data : EntryBlobs]
Containers == UNION {[1 .. k -> Entries] : k \in 0 .. MaxEntries}

NoCall == [fn |-> "", item |-> 0, arg |-> << >>, res |-> Return(<< >>)]
NoFirst == [in_project |-> << >>, set_ver |-> << >>]

-----------------------------------------------------------------------------
(* A patcher called directly *)

InitPatch ==
    /\ data_bytes \in Blobs
    /\ set_ver \in SetVers
    /\ assert_ver \in AssertVers
    /\ set_appver \in AppVers
    /\ pc = "patcher"
    /\ call = NoCall
    /\ in_project = << >> /\ out_project = << >> /\ stdout = << >>
    /\ i = 0 /\ run = 1 /\ first = NoFirst /\ exc = ""
    /\ in_open = FALSE /\ out_open = FALSE /\ item_open = FALSE

CallPatchXml ==
    /\ pc = "patcher"
    /\ call' = [fn |-> "patch_xml_projectversion", item |-> 0, arg |-> data_bytes,
                res |-> patch_xml_projectversion(data_bytes, set_ver, assert_ver)]
    /\ pc' = "returned"
    /\ UNCHANGED << in_project, set_ver, assert_ver, set_appver, out_project, stdout, i,
                    data_bytes, in_open, out_open, item_open, run, first, exc >>

CallPatchComment ==
    /\ pc = "patcher"
    /\ call' = [fn |-> "patch_comment_version_info", item |-> 0, arg |-> data_bytes,
                res |-> patch_comment_version_info(data_bytes, set_ver, assert_ver,
                                                   set_appver)]
    /\ pc' = "returned"
    /\ UNCHANGED << in_project, set_ver, assert_ver, set_appver, out_project, stdout, i,
                    data_bytes, in_open, out_open, item_open, run, first, exc >>

NextPatch == CallPatchXml \/ CallPatchComment

SpecPatch == InitPatch /\ [][NextPatch]_vars

-----------------------------------------------------------------------------
(* process_dr_project *)

Init ==
    /\ in_project \in Containers
    /\ set_ver \in SetVers
    /\ assert_ver \in AssertVers
    /\ set_appver \in AppVers
    /\ pc = "start"
    /\ out_project = << >> /\ stdout = << >>
    /\ i = 0 /\ data_bytes = << >>
    /\ in_open = FALSE /\ out_open = FALSE /\ item_open = FALSE
    /\ call = NoCall /\ run = 1 /\ first = NoFirst /\ exc = ""

\* an exception that leaves the with blocks without closing what they opened
PropagateLeak(e) ==
    /\ pc' = "raised"
    /\ exc' = e
    /\ UNCHANGED << item_open, out_open, in_open >>

\* an exception leaves the with blocks: __exit__ closes in_item, out_project, in_project
Propagate(e) ==
    /\ pc' = "raised"
    /\ exc' = e
    /\ item_open' = FALSE
    /\ out_open' = FALSE
    /\ in_open' = FALSE

\* the line printed for an AssertionError
Diagnostic(ver) == [ver |-> ver, expected |-> assert_ver]

\* with ZipFile(inputfile, "r") as in_project: infolist = in_project.infolist()
OpenInput ==
    /\ pc = "start"
    /\ in_open' = TRUE
    /\ pc' = "open_out"
    /\ UNCHANGED << in_project, set_ver, assert_ver, set_appver, out_project, stdout, i,
                    data_bytes, out_open, item_open, call, run, first, exc >>

\* ZipFile(inputfile, "r") raises: no file, no zip archive
OpenInputFail ==
    /\ pc = "start"
    /\ Propagate("FileNotFoundError")
    /\ UNCHANGED << in_project, set_ver, assert_ver, set_appver, out_project, stdout, i,
                    data_bytes, call, run, first >>

\* with ZipFile(outputfile, "w") as out_project:
OpenOutput ==
    /\ pc = "open_out"
    /\ out_open' = TRUE
    /\ i' = 1
    /\ pc' = "for"
    /\ UNCHANGED << in_project, set_ver, assert_ver, set_appver, out_project, stdout,
                    data_bytes, in_open, item_open, call, run, first, exc >>

\* ZipFile(outputfile, "w") raises: the path cannot be written
OpenOutputFail ==
    /\ pc = "open_out"
    /\ Propagate("PermissionError")
    /\ UNCHANGED << in_project, set_ver, assert_ver, set_appver, out_project, stdout, i,
                    data_bytes, call, run, first >>

\* for in_item_name in infolist: with in_project.open(in_item_name) as in_item:
OpenItem ==
    /\ pc = "for"
    /\ i <= Len(in_project)
    /\ item_open' = TRUE
    /\ pc' = "read"
    /\ UNCHANGED << in_project, set_ver, assert_ver, set_appver, out_project, stdout, i,
                    data_bytes, in_open, out_open, call, run, first, exc >>

\* in_project.open raises
OpenItemFail ==
    /\ pc = "for"
    /\ i <= Len(in_project)
    /\ Propagate("RuntimeError")
    /\ UNCHANGED << in_project, set_ver, assert_ver, set_appver, out_project, stdout, i,
                    data_bytes, call, run, first >>

\* data_bytes = in_item.read()
ReadItem ==
    /\ pc = "read"
    /\ data_bytes' = in_project[i].data
    /\ pc' = "projectversion"
    /\ UNCHANGED << in_project, set_ver, assert_ver, set_appver, out_project, stdout, i,
                    in_open, out_open, item_open, call, run, first, exc >>

\* in_item.read() raises: a bad CRC, a truncated archive
ReadItemFail ==
    /\ pc = "read"
    /\ Propagate("BadZipFile")
    /\ UNCHANGED << in_project, set_ver, assert_ver, set_appver, out_project, stdout, i,
                    data_bytes, call, run, first >>

\* the first patch rule, with the AssertionError propagated instead of caught
PatchProjectVersionUncaught ==
    /\ pc = "projectversion"
    /\ IF endswith(in_project[i].filename, << "r", "o", "j", "e", "c", "t", ".", "x", "m", "l" >>)
       THEN LET r == patch_xml_projectversion(data_bytes, set_ver, assert_ver)
            IN  /\ call' = [fn |-> "patch_xml_projectversion", item |-> i,
                            arg |-> data_bytes, res |-> r]
                /\ IF r.raised = ""
                   THEN /\ data_bytes' = r.ret
                        /\ pc' = "comment"
                        /\ UNCHANGED << stdout, in_open, out_open, item_open, exc >>
                   ELSE /\ Propagate(r.raised)
                        /\ UNCHANGED << data_bytes, stdout >>
       ELSE /\ pc' = "comment"
            /\ UNCHANGED << data_bytes, stdout, call, in_open, out_open, item_open, exc >>
    /\ UNCHANGED << in_project, set_ver, assert_ver, set_appver, out_project, i, run, first >>

\* the first patch rule applied whatever the entry's name
PatchProjectVersionAnyName ==
    /\ pc = "projectversion"
    /\ LET r == patch_xml_projectversion(data_bytes, set_ver, assert_ver)
       IN  /\ call' = [fn |-> "patch_xml_projectversion", item |-> i,
                       arg |-> data_bytes, res |-> r]
           /\ IF r.raised = ""
              THEN /\ data_bytes' = r.ret
                   /\ pc' = "comment"
                   /\ UNCHANGED << stdout, in_open, out_open, item_open, exc >>
              ELSE IF r.raised = "AssertionError"
              THEN /\ stdout' = Append(stdout, Diagnostic(r.ver))
                   /\ pc' = "comment"
                   /\ UNCHANGED << data_bytes, in_open, out_open, item_open, exc >>
              ELSE /\ Propagate(r.raised)
                   /\ UNCHANGED << data_bytes, stdout >>
    /\ UNCHANGED << in_project, set_ver, assert_ver, set_appver, out_project, i, run, first >>

\* if in_item_name.filename.endswith("roject.xml"): try: data_bytes =
\* patch_xml_projectversion(...) except AssertionError as e: print(...)
PatchProjectVersion ==
    /\ pc = "projectversion"
    /\ IF endswith(in_project[i].filename, << "r", "o", "j", "e", "c", "t", ".", "x", "m", "l" >>)
       THEN LET r == patch_xml_projectversion(data_bytes, set_ver, assert_ver)
            IN  /\ call' = [fn |-> "patch_xml_projectversion", item |-> i,
                            arg |-> data_bytes, res |-> r]
                /\ IF r.raised = ""
                   THEN /\ data_bytes' = r.ret
                        /\ pc' = "comment"
                        /\ UNCHANGED << stdout, in_open, out_open, item_open, exc >>
                   ELSE IF r.raised = "AssertionError"
                   THEN /\ stdout' = Append(stdout, Diagnostic(r.ver))
                        /\ pc' = "comment"
                        /\ UNCHANGED << data_bytes, in_open, out_open, item_open, exc >>
                   ELSE /\ Propagate(r.raised)
                        /\ UNCHANGED << data_bytes, stdout >>
       ELSE /\ pc' = "comment"
            /\ UNCHANGED << data_bytes, stdout, call, in_open, out_open, item_open, exc >>
    /\ UNCHANGED << in_project, set_ver, assert_ver, set_appver, out_project, i, run, first >>

\* if set_appver != "" and in_item_name.filename.endswith(".xml"): try: data_bytes =
\* patch_comment_version_info(...) except AssertionError as e: print(...)
PatchCommentVersionInfo ==
    /\ pc = "comment"
    /\ IF set_appver # << >> /\ endswith(in_project[i].filename, << ".", "x", "m", "l" >>)
       THEN LET r == patch_comment_version_info(data_bytes, set_ver, assert_ver, set_appver)
            IN  /\ call' = [fn |-> "patch_comment_version_info", item |-> i,
                            arg |-> data_bytes, res |-> r]
                /\ IF r.raised = ""
                   THEN /\ data_bytes' = r.ret
                        /\ pc' = "write"
                        /\ UNCHANGED << stdout, in_open, out_open, item_open, exc >>
                   ELSE IF r.raised = "AssertionError"
                   THEN /\ stdout' = Append(stdout, Diagnostic(r.ver))
                        /\ pc' = "write"
                        /\ UNCHANGED << data_bytes, in_open, out_open, item_open, exc >>
                   ELSE /\ Propagate(r.raised)
                        /\ UNCHANGED << data_bytes, stdout >>
       ELSE /\ pc' = "write"
            /\ UNCHANGED << data_bytes, stdout, call, in_open, out_open, item_open, exc >>
    /\ UNCHANGED << in_project, set_ver, assert_ver, set_appver, out_project, i, run, first >>

\* a write that puts the item in front of the items written so far
WriteItemFront ==
    /\ pc = "write"
    /\ out_project' = << [filename |-> in_project[i].filename, data |-> data_bytes] >>
                      \o out_project
    /\ item_open' = FALSE
    /\ i' = i + 1
    /\ pc' = "for"
    /\ UNCHANGED << in_project, set_ver, assert_ver, set_appver, stdout, data_bytes,
                    in_open, out_open, call, run, first, exc >>

\* out_project.writestr(in_item_name, data_bytes); the with block closes in_item
WriteItem ==
    /\ pc = "write"
    /\ out_project' = Append(out_project,
                             [filename |-> in_project[i].filename, data |-> data_bytes])
    /\ item_open' = FALSE
    /\ i' = i + 1
    /\ pc' = "for"
    /\ UNCHANGED << in_project, set_ver, assert_ver, set_appver, stdout, data_bytes,
                    in_open, out_open, call, run, first, exc >>

\* out_project.writestr raises: the disk is full
WriteItemFail ==
    /\ pc = "write"
    /\ Propagate("OSError")
    /\ UNCHANGED << in_project, set_ver, assert_ver, set_appver, out_project, stdout, i,
                    data_bytes, call, run, first >>

\* the loop is over: both with blocks are left, out_project and in_project are closed
Close ==
    /\ pc = "for"
    /\ i > Len(in_project)
    /\ out_open' = FALSE
    /\ in_open' = FALSE
    /\ pc' = "done"
    /\ UNCHANGED << in_project, set_ver, assert_ver, set_appver, out_project, stdout, i,
                    data_bytes, item_open, call, run, first, exc >>

\* a second invocation, on the output of a first one that was given set_ver alone:
\* set_ver is any version and assert_ver is the version the first invocation set
Rerun ==
    /\ pc = "done"
    /\ run = 1
    /\ assert_ver = << >>
    /\ set_appver = << >>
    /\ first' = [in_project |-> in_project, set_ver |-> set_ver]
    /\ in_project' = out_project
    /\ set_ver' \in AssertVers \ { << >> }
    /\ assert_ver' = set_ver
    /\ run' = 2
    /\ pc' = "start"
    /\ out_project' = << >>
    /\ stdout' = << >>
    /\ i' = 0
    /\ data_bytes' = << >>
    /\ call' = NoCall
    /\ UNCHANGED << set_appver, in_open, out_open, item_open, exc >>

Next ==
    \/ OpenInput \/ OpenInputFail
    \/ OpenOutput \/ OpenOutputFail
    \/ OpenItem \/ OpenItemFail
    \/ ReadItem \/ ReadItemFail
    \/ PatchProjectVersion
    \/ PatchCommentVersionInfo
    \/ WriteItem \/ WriteItemFail
    \/ Close
    \/ Rerun

Spec == Init /\ [][Next]_vars

-----------------------------------------------------------------------------
(* Vocabulary of the properties *)

IsProjectFile(name) == endswith(name, << "r", "o", "j", "e", "c", "t", ".", "x", "m", "l" >>)
IsXml(name) == endswith(name, << ".", "x", "m", "l" >>)

\* the byte offset in the UTF-8 bytes b of the character offset k of its text
RECURSIVE Off(_, _)
Off(b, k) ==
    IF k = 0 \/ b = << >> THEN 0
    ELSE IF b[1] = "0xC3" THEN 2 + Off(SliceFrom(b, 2), k - 1)
         ELSE 1 + Off(Tail(b), k - 1)

\* the bytes b with the bytes from a to e replaced by new
Replace(b, a, e, new) == Slice(b, 0, a) \o new \o SliceFrom(b, e)

\* the first single-capture match of the bytes b, its captured value, and b with
\* the captured span replaced by v
PV(b) == re_projectversion_search(decode(b))
PVValue(b) == Slice(decode(b), PV(b).start1, PV(b).end1)
PVSet(b, v) == Replace(b, Off(b, PV(b).start1), Off(b, PV(b).end1), encode(v))

\* the first dual-capture match of the bytes b, its captured project version, and
\* b with the projver span replaced by v
CV(b) == re_search(decode(b))
CVValue(b) == Slice(decode(b), CV(b).start_projver, CV(b).end_projver)
CVSet(b, v) == Replace(b, Off(b, CV(b).start_projver), Off(b, CV(b).end_projver), encode(v))

\* b with the appver span replaced by a and the projver span replaced by v
CVSetBoth(b, v, a) ==
    Slice(b, 0, Off(b, CV(b).start_appver)) \o encode(a)
    \o Slice(b, Off(b, CV(b).end_appver), Off(b, CV(b).start_projver)) \o encode(v)
    \o SliceFrom(b, Off(b, CV(b).end_projver))

\* the line d was printed
Printed(d) == \E k \in 1 .. Len(stdout) : stdout[k] = d

\* the single-capture rule finds a version in entry j that fails the assertion
SingleMismatch(j) ==
    /\ IsProjectFile(in_project[j].filename)
    /\ utf8_valid(in_project[j].data)
    /\ PV(in_project[j].data).found
    /\ assert_ver # << >>
    /\ PVValue(in_project[j].data) # assert_ver

\* the single-capture rule modifies entry j
SingleApplies(j) ==
    /\ IsProjectFile(in_project[j].filename)
    /\ utf8_valid(in_project[j].data)
    /\ PV(in_project[j].data).found
    /\ (assert_ver = << >> \/ PVValue(in_project[j].data) = assert_ver)

\* the dual-capture rule, given the input content of entry j, finds a project
\* version that fails the assertion
DualMismatch(j) ==
    /\ set_appver # << >>
    /\ IsXml(in_project[j].filename)
    /\ utf8_valid(in_project[j].data)
    /\ CV(in_project[j].data).found
    /\ assert_ver # << >>
    /\ CVValue(in_project[j].data) # assert_ver

\* the dual-capture rule, given the input content of entry j, modifies it
DualApplies(j) ==
    /\ set_appver # << >>
    /\ IsXml(in_project[j].filename)
    /\ utf8_valid(in_project[j].data)
    /\ CV(in_project[j].data).found
    /\ (assert_ver = << >> \/ CVValue(in_project[j].data) = assert_ver)

InProcess == pc \notin {"patcher", "returned"}

-----------------------------------------------------------------------------
(* C1 *)

\* C1: the entries written are, in order and under the same names, the input's
\* entries processed so far, and a completed run has written one entry per input
\* entry; assertion mismatches do not change this.
C1_OrderAndNames ==
    InProcess =>
        /\ Len(out_project) <= Len(in_project)
        /\ \A j \in 1 .. Len(out_project) : out_project[j].filename = in_project[j].filename
        /\ (pc = "done" => Len(out_project) = Len(in_project))
        /\ (pc \in {"read", "projectversion", "comment", "write"} => Len(out_project) = i - 1)

C1_Witness ==
    /\ pc = "done"
    /\ Len(in_project) = 2
    /\ in_project[1].filename # in_project[2].filename
    /\ SingleMismatch(1)
    /\ stdout # << >>

-----------------------------------------------------------------------------
(* C2 *)

\* C2: an entry whose name ends neither in "roject.xml" nor in ".xml" (case-sensitive)
\* is written with the content it has in the input.
C2_UnrecognizedVerbatim ==
    InProcess =>
        \A j \in 1 .. Len(out_project) :
            (~IsProjectFile(in_project[j].filename) /\ ~IsXml(in_project[j].filename))
                => out_project[j].data = in_project[j].data

C2_Witness ==
    /\ pc = "done"
    /\ set_appver # << >>
    /\ assert_ver = << >>
    /\ \E j \in 1 .. Len(out_project) :
        /\ in_project[j].filename = ProjectXML
        /\ PV(in_project[j].data).found
        /\ CV(in_project[j].data).found
        /\ out_project[j].data = in_project[j].data

-----------------------------------------------------------------------------
(* C3 *)

\* C3 as stated: for a written entry named *roject.xml whose text holds the
\* single-capture pattern, with no assertion value or one equal to the captured
\* value, the output is the input with the captured span replaced by set_ver.
C3_Original ==
    InProcess =>
        \A j \in 1 .. Len(out_project) :
            SingleApplies(j) => out_project[j].data = PVSet(in_project[j].data, set_ver)

\* C3 amended: the same, when the dual-capture rule has nothing to patch in the
\* entry: set_appver is empty, or the text the single-capture patcher returns holds
\* no dual-capture annotation.
C3_SingleCaptureOnlySpan ==
    InProcess =>
        \A j \in 1 .. Len(out_project) :
            ( /\ SingleApplies(j)
              /\ \/ set_appver = << >>
                 \/ ~CV(PVSet(in_project[j].data, set_ver)).found )
                => out_project[j].data = PVSet(in_project[j].data, set_ver)

C3_Witness ==
    /\ pc = "done"
    /\ assert_ver = << "6" >>
    /\ set_appver # << >>
    /\ set_ver = << "1", "0" >>
    /\ \E j \in 1 .. Len(out_project) :
        /\ in_project[j] = [filename |-> ProjectXml, data |-> Eacute \o P6w \o Text]
        /\ out_project[j].data =
               << "0xC3", "0xA9", "<ProjectVersion>", " ", "1", "0", "\n",
                  "</ProjectVersion>", "x" >>

-----------------------------------------------------------------------------
(* C4 *)

\* C4 as stated: when a non-empty assertion value differs from a version captured
\* in an entry, the entry is written with its input content and a diagnostic with
\* the captured value is printed.
C4_Original ==
    InProcess =>
        \A j \in 1 .. Len(out_project) :
            /\ SingleMismatch(j) =>
                   /\ out_project[j].data = in_project[j].data
                   /\ Printed(Diagnostic(PVValue(in_project[j].data)))
            /\ (DualMismatch(j) /\ ~SingleApplies(j)) =>
                   /\ out_project[j].data = in_project[j].data
                   /\ Printed(Diagnostic(CVValue(in_project[j].data)))

\* C4 amended: the patcher whose captured value fails the assertion leaves the
\* content alone and a diagnostic with the captured value is printed; the entry is
\* written with its input content when the other patch rule does not modify it,
\* and otherwise as the other rule alone patches it.
C4_MismatchSkipsThatPatcher ==
    InProcess =>
        \A j \in 1 .. Len(out_project) :
            /\ SingleMismatch(j) =>
                   /\ Printed(Diagnostic(PVValue(in_project[j].data)))
                   /\ ~DualApplies(j) => out_project[j].data = in_project[j].data
                   /\ DualApplies(j) =>
                          out_project[j].data = CVSetBoth(in_project[j].data, set_ver, set_appver)
            /\ (DualMismatch(j) /\ ~SingleApplies(j)) =>
                   /\ Printed(Diagnostic(CVValue(in_project[j].data)))
                   /\ out_project[j].data = in_project[j].data
            /\ ( /\ SingleApplies(j)
                 /\ set_appver # << >>
                 /\ assert_ver # << >>
                 /\ CV(PVSet(in_project[j].data, set_ver)).found
                 /\ CVValue(PVSet(in_project[j].data, set_ver)) # assert_ver ) =>
                   /\ Printed(Diagnostic(CVValue(PVSet(in_project[j].data, set_ver))))
                   /\ out_project[j].data = PVSet(in_project[j].data, set_ver)

C4_Witness ==
    /\ pc = "done"
    /\ \E j \in 1 .. Len(out_project) :
        /\ SingleMismatch(j)
        /\ ~DualApplies(j)
        /\ out_project[j].data = in_project[j].data
    /\ \E j \in 1 .. Len(out_project) :
        /\ DualMismatch(j)
        /\ ~SingleApplies(j)
        /\ out_project[j].data = in_project[j].data

-----------------------------------------------------------------------------
(* C5 *)

IsDigits(v) == v # << >> /\ \A k \in 1 .. Len(v) : v[k] \in Digit

\* the second invocation (set_ver = V1, assert_ver = V2) has completed, and every
\* field the first invocation (set_ver = V2) patched held V1
RoundTripDone ==
    /\ run = 2
    /\ pc = "done"
    /\ assert_ver = first.set_ver
    /\ \A j \in 1 .. Len(first.in_project) :
           ( /\ IsProjectFile(first.in_project[j].filename)
             /\ utf8_valid(first.in_project[j].data)
             /\ PV(first.in_project[j].data).found )
               => PVValue(first.in_project[j].data) = set_ver

\* entry j was patched by the first invocation
RoundTripPatched(j) ==
    /\ IsProjectFile(first.in_project[j].filename)
    /\ utf8_valid(first.in_project[j].data)
    /\ PV(first.in_project[j].data).found

\* C5 as stated: for all version strings V1 and V2, patching V1 to V2 and then V2
\* to V1 with assertion V2 gives every patched entry its original content.
C5_Original ==
    RoundTripDone =>
        \A j \in 1 .. Len(first.in_project) :
            RoundTripPatched(j) => out_project[j].data = first.in_project[j].data

\* C5 amended: the same for a V2 that is a non-empty run of decimal digits.
C5_RoundTripDigits ==
    (RoundTripDone /\ IsDigits(first.set_ver)) =>
        /\ Len(out_project) = Len(first.in_project)
        /\ \A j \in 1 .. Len(first.in_project) :
               RoundTripPatched(j) => out_project[j].data = first.in_project[j].data

C5_Witness ==
    /\ RoundTripDone
    /\ IsDigits(first.set_ver)
    /\ \E j \in 1 .. Len(first.in_project) :
        /\ RoundTripPatched(j)
        /\ in_project[j].data # first.in_project[j].data
        /\ out_project[j].data = first.in_project[j].data

-----------------------------------------------------------------------------
(* C6, C7, C9: a patcher called directly *)

Returned(fn) == pc = "returned" /\ call.fn = fn

\* the first match of each pattern in the text of the bytes b, found by trying the
\* offsets from the left
FirstPV(b) ==
    LET d == decode(b)
    IN  re_projectversion_at(d, Min({s \in 0 .. (Len(d) - 1) : re_projectversion_at(d, s).found}))
FirstCV(b) ==
    LET d == decode(b)
    IN  re_at(d, Min({s \in 0 .. (Len(d) - 1) : re_at(d, s).found}))
CountPV(b) == Cardinality({s \in 0 .. (Len(decode(b)) - 1) : re_projectversion_at(decode(b), s).found})
CountCV(b) == Cardinality({s \in 0 .. (Len(decode(b)) - 1) : re_at(decode(b), s).found})

\* C6: patch_comment_version_info with set_appver = "", on a blob that holds the
\* annotation and passes the assertion, returns the blob with the projver span
\* replaced by set_ver and everything else, the appver field included, as it was.
C6_EmptyAppverUntouched ==
    ( /\ Returned("patch_comment_version_info")
      /\ set_appver = << >>
      /\ utf8_valid(call.arg)
      /\ CV(call.arg).found
      /\ (assert_ver = << >> \/ CVValue(call.arg) = assert_ver) )
        => /\ call.res.raised = ""
           /\ call.res.ret = CVSet(call.arg, set_ver)
           /\ Slice(call.res.ret, 0, Off(call.arg, CV(call.arg).end_appver))
                  = Slice(call.arg, 0, Off(call.arg, CV(call.arg).end_appver))

C6_Witness ==
    /\ Returned("patch_comment_version_info")
    /\ set_appver = << >>
    /\ set_ver = << "6", ".", "5" >>
    /\ assert_ver = << "5" >>
    /\ call.arg = Eacute \o A5
    /\ call.res.ret = Eacute \o
           << "<!--", " ", "DbAppVer=\"", "1", "8", ".", "0", "\"", " ",
              "DbPrjVer=\"", "6", ".", "5", "\"", " ", "-->" >>

\* C7: patch_comment_version_info with a non-empty set_appver, on a blob that holds
\* the annotation and passes the assertion, returns the blob with the appver span
\* replaced by set_appver, the projver span replaced by set_ver and every other
\* byte as it was, whatever the lengths of the old and new values; the annotation
\* 18.0 / 5 patched with 6 and 18.5 becomes 18.5 / 6.
C7_BothSpansNoDrift ==
    /\ ( /\ Returned("patch_comment_version_info")
         /\ set_appver # << >>
         /\ utf8_valid(call.arg)
         /\ CV(call.arg).found
         /\ (assert_ver = << >> \/ CVValue(call.arg) = assert_ver) )
           => /\ call.res.raised = ""
              /\ call.res.ret = CVSetBoth(call.arg, set_ver, set_appver)
    /\ ( /\ Returned("patch_comment_version_info")
         /\ call.arg = A5
         /\ set_ver = << "6" >>
         /\ set_appver = << "1", "8", ".", "5" >>
         /\ assert_ver = << >> )
           => call.res.ret =
                  << "<!--", " ", "DbAppVer=\"", "1", "8", ".", "5", "\"", " ",
                     "DbPrjVer=\"", "6", "\"", " ", "-->" >>

C7_Witness ==
    /\ Returned("patch_comment_version_info")
    /\ call.arg = Text \o A6
    /\ set_ver = << "1", "0" >>
    /\ set_appver = << "1", "8", ".", "5" >>
    /\ call.res.ret =
           << "x", "<!--", "DbAppVer=\"", "1", "8", ".", "5", "\"", "\n",
              "DbPrjVer=\"", "1", "0", "\"", "-->" >>

\* C9: on a blob with several occurrences of its pattern, a patcher compares the
\* assertion value with the first occurrence's value only, raises with that value
\* when they differ, and otherwise returns the blob with the captured span(s) of
\* the first occurrence replaced and every later occurrence as it was.
C9_FirstMatchOnly ==
    /\ ( /\ Returned("patch_xml_projectversion")
         /\ utf8_valid(call.arg)
         /\ CountPV(call.arg) >= 2 )
           => LET m == FirstPV(call.arg)
                  v == Slice(decode(call.arg), m.start1, m.end1)
              IN  IF assert_ver # << >> /\ v # assert_ver
                  THEN call.res = Raise("AssertionError", v)
                  ELSE call.res = Return(Replace(call.arg, Off(call.arg, m.start1),
                                                 Off(call.arg, m.end1), encode(set_ver)))
    /\ ( /\ Returned("patch_comment_version_info")
         /\ utf8_valid(call.arg)
         /\ CountCV(call.arg) >= 2 )
           => LET m == FirstCV(call.arg)
                  v == Slice(decode(call.arg), m.start_projver, m.end_projver)
                  a == IF set_appver = << >>
                       THEN Slice(decode(call.arg), m.start_appver, m.end_appver)
                       ELSE set_appver
              IN  IF assert_ver # << >> /\ v # assert_ver
                  THEN call.res = Raise("AssertionError", v)
                  ELSE call.res = Return(
                           Slice(call.arg, 0, Off(call.arg, m.start_appver)) \o encode(a)
                           \o Slice(call.arg, Off(call.arg, m.end_appver),
                                    Off(call.arg, m.start_projver))
                           \o encode(set_ver)
                           \o SliceFrom(call.arg, Off(call.arg, m.end_projver)))

C9_Witness ==
    /\ Returned("patch_xml_projectversion")
    /\ call.arg = P5 \o P6w
    /\ assert_ver = << "5" >>
    /\ set_ver = << "1", "0" >>
    /\ call.res.ret = << "<ProjectVersion>", "1", "0", "</ProjectVersion>" >> \o P6w

-----------------------------------------------------------------------------
(* C8 *)

\* entry i has just failed the assertion of the patcher fn
JustMismatched(fn) ==
    /\ InProcess
    /\ call.fn = fn
    /\ call.item = i
    /\ call.res.raised = "AssertionError"

C8_Step ==
    \* the step in which a patcher raises AssertionError prints the diagnostic, keeps
    \* data_bytes and goes on with the next statement
    /\ (InProcess /\ call' # call /\ call'.res.raised = "AssertionError") =>
           /\ exc' = ""
           /\ i' = i
           /\ data_bytes' = data_bytes
           /\ stdout' = Append(stdout, [ver |-> call'.res.ver, expected |-> assert_ver])
           /\ pc' = IF call'.fn = "patch_xml_projectversion" THEN "comment" ELSE "write"
    \* after a single-capture mismatch the dual-capture rule runs on the same entry
    /\ ( /\ pc = "comment"
         /\ JustMismatched("patch_xml_projectversion")
         /\ set_appver # << >>
         /\ IsXml(in_project[i].filename)
         /\ pc' # pc )
           => /\ call'.fn = "patch_comment_version_info"
              /\ call'.item = i
              /\ call'.arg = in_project[i].data
    \* the entry is written, unless the write itself fails
    /\ ( /\ pc = "write"
         /\ \/ JustMismatched("patch_xml_projectversion")
            \/ JustMismatched("patch_comment_version_info")
         /\ pc' # pc
         /\ exc' # "OSError" )
           => /\ out_project' = Append(out_project, [filename |-> in_project[i].filename,
                                                     data |-> data_bytes])
              /\ i' = i + 1
              /\ pc' = "for"
              /\ exc' = ""
    \* and the loop goes on with the entries that remain, or ends normally
    /\ ( /\ pc = "for"
         /\ stdout # << >>
         /\ pc' # pc
         /\ exc' = "" )
           => pc' = IF i <= Len(in_project) THEN "read" ELSE "done"

\* C8: an assertion mismatch is never fatal: the AssertionError does not leave
\* process_dr_project, only the failing patcher's modification is skipped, the
\* remaining patch rule runs on the same entry, the entry is written, and the loop
\* goes on with the remaining entries up to the normal end (only an I/O or decoding
\* error stops it).
C8_MismatchNonFatal ==
    /\ [](exc # "AssertionError")
    /\ [][C8_Step]_vars

C8_Witness ==
    /\ pc = "done"
    /\ Len(out_project) = 2
    /\ SingleMismatch(1)
    /\ DualApplies(1)
    /\ out_project[1].data = CVSetBoth(in_project[1].data, set_ver, set_appver)
    /\ Len(stdout) = 1
    /\ out_project[2].data # in_project[2].data

-----------------------------------------------------------------------------
(* C10 *)

\* C10: when process_dr_project has returned or an exception has left it, the input
\* container, the output container and the entry stream are closed; an entry stream
\* is open only inside an open output container inside an open input container.
C10_HandlesClosed ==
    InProcess =>
        /\ pc \in {"done", "raised"} => (~in_open /\ ~out_open /\ ~item_open)
        /\ item_open => out_open
        /\ out_open => in_open

C10_Witness ==
    /\ pc = "raised"
    /\ exc = "UnicodeDecodeError"
    /\ Len(out_project) = 1
    /\ ~in_open /\ ~out_open /\ ~item_open

====
